---- MODULE Spec2Model ----
(***************************************************************************)
(* SMAPIC: the multi-key fallback orchestrator editImage and the chat UI   *)
(* handlers that drive it.                                                 *)
(*                                                                         *)
(* The repository holds two copies of editImage: the one at the end of     *)
(* src/App.tsx (four keys, client-error hard stop, uuid helper) and the    *)
(* one in src/services/geminiService.ts (three keys, no client-error       *)
(* branch), which is the module src/App.tsx imports.  A call record        *)
(* carries the copy that serves it in its field impl.                      *)
(*                                                                         *)
(* JavaScript strings are TLA+ strings; substring search, toLowerCase and  *)
(* trim are computed character by character.  Non-ASCII characters of the  *)
(* user-facing messages are dropped or transliterated.  An optional JS     *)
(* value is Undef or Def(v).                                               *)
(***************************************************************************)
EXTENDS Integers, Sequences, FiniteSets, TLC

(***************************************************************************)
(* Bounds of the model                                                     *)
(***************************************************************************)
MaxImages == 2
MaxSends == 2
MaxFiles == 2
MaxCalls == 2
MaxEvents == 4

(***************************************************************************)
(* JavaScript values and strings                                           *)
(***************************************************************************)
Undef == [def |-> FALSE]
Def(v) == [def |-> TRUE, val |-> v]

Has(r, f) == f \in DOMAIN r

CharAt(s, k) == SubSeq(s, k, k)

\* String.prototype.includes
Includes(s, needle) ==
  \E k \in 1..(Len(s) - Len(needle) + 1) : SubSeq(s, k, k + Len(needle) - 1) = needle

Upper == "ABCDEFGHIJKLMNOPQRSTUVWXYZ"
Lower == "abcdefghijklmnopqrstuvwxyz"

LowerOf == [c \in {CharAt(Upper, k) : k \in 1..Len(Upper)} |->
              CharAt(Lower, CHOOSE k \in 1..Len(Upper) : CharAt(Upper, k) = c)]

LowerChar(c) == IF c \in DOMAIN LowerOf THEN LowerOf[c] ELSE c

RECURSIVE ToLowerCase(_)
\* String.prototype.toLowerCase, one half of the string after the other
ToLowerCase(s) ==
  IF Len(s) = 0 THEN ""
  ELSE IF Len(s) = 1 THEN LowerChar(s)
  ELSE ToLowerCase(SubSeq(s, 1, Len(s) \div 2))
         \o ToLowerCase(SubSeq(s, Len(s) \div 2 + 1, Len(s)))

IsSpace(c) == c = " " \/ c = "\n" \/ c = "\t"

RECURSIVE TrimStart(_)
TrimStart(s) ==
  IF Len(s) > 0 /\ IsSpace(CharAt(s, 1)) THEN TrimStart(SubSeq(s, 2, Len(s))) ELSE s

RECURSIVE TrimEnd(_)
TrimEnd(s) ==
  IF Len(s) > 0 /\ IsSpace(CharAt(s, Len(s))) THEN TrimEnd(SubSeq(s, 1, Len(s) - 1)) ELSE s

\* String.prototype.trim
Trim(s) == TrimEnd(TrimStart(s))

RECURSIVE Rep(_, _)
\* the string of n copies of c
Rep(c, n) ==
  IF n = 0 THEN ""
  ELSE IF n = 1 THEN c
  ELSE Rep(c, n \div 2) \o Rep(c, n - n \div 2)

\* Error.prototype.toString
ErrToString(e) == IF e.message = "" THEN e.name ELSE e.name \o ": " \o e.message

Err(name, message) == [name |-> name, message |-> message]


IsUndef(v) == Has(v, "def") /\ ~v.def

\* JavaScript truthiness of an optional string
Truthy(v) == Has(v, "def") /\ v.def /\ v.val # ""

\* the outcome of evaluating a block: a thrown value or a returned value
Throw(e) == [threw |-> TRUE, error |-> e]
Return(v) == [threw |-> FALSE, value |-> v]

(***************************************************************************)
(* The credential pools                                                    *)
(***************************************************************************)
API_KEYS_App == <<"key-new", "key-backup1", "key-backup2", "key-backup3">>
API_KEYS_Service == <<"key-backup1", "key-backup2", "key-backup3">>

Impls == {"App", "Service"}

API_KEYS(impl) == IF impl = "App" THEN API_KEYS_App ELSE API_KEYS_Service

TextLimit == 50

(***************************************************************************)
(* editImage: request composition                                          *)
(***************************************************************************)
EngineType == {"HTL-1", "Qwalc-3", "Snapic-gen3"}

EngineInstructionBlank(engine) == ""

EngineInstruction(engine) ==
  LET e0 == ""
      e1 == IF engine = "HTL-1"
            THEN "MODE: FAST/BASIC. Prioritize speed. Do not add unnecessary details."
            ELSE e0
      e2 == IF engine = "Qwalc-3"
            THEN "MODE: BALANCED/DETAILED. Enhance lighting and texture."
            ELSE e1
      e3 == IF engine = "Snapic-gen3"
            THEN "MODE: ULTRA/CREATIVE. Maximum artistic freedom and fidelity."
            ELSE e2
  IN e3

FullPrompt(engine, prompt) ==
  "[SYSTEM: You are SMAPic. " \o EngineInstruction(engine)
    \o " DO NOT CONVERSE. JUST EDIT/GENERATE.] " \o prompt

InlinePart(img) == [inlineData |-> [mimeType |-> img.mimeType, data |-> img.data]]

BuildPartsTextFirst(images, fullPrompt) ==
  <<[text |-> fullPrompt]>> \o [k \in 1..Len(images) |-> InlinePart(images[k])]

\* images.map(...) followed by parts.push({text})
BuildParts(images, fullPrompt) ==
  [k \in 1..Len(images) |-> InlinePart(images[k])] \o <<[text |-> fullPrompt]>>

Request(apiKey, images, fullPrompt) ==
  [apiKey |-> apiKey,
   model |-> "gemini-2.5-flash-image",
   contents |-> <<[parts |-> BuildParts(images, fullPrompt)]>>]

(***************************************************************************)
(* editImage: inspection of one response (the body of the try block)       *)
(***************************************************************************)
DataUri(inlineData) ==
  "data:" \o inlineData.mimeType \o ";base64," \o inlineData.data

RECURSIVE ExtractPartsFirst(_, _)
ExtractPartsFirst(parts, acc) ==
  IF Len(parts) = 0 THEN Return(acc)
  ELSE LET part == Head(parts) IN
       IF IsUndef(part)
       THEN Throw([name |-> "TypeError",
                   message |-> "Cannot read properties of null (reading 'inlineData')"])
       ELSE IF Has(part, "inlineData")
       THEN ExtractPartsFirst(Tail(parts),
              IF acc.image.def THEN acc
              ELSE [acc EXCEPT !.image = Def(DataUri(part.inlineData))])
       ELSE IF Has(part, "text") /\ part.text # ""
       THEN ExtractPartsFirst(Tail(parts),
              IF acc.text.def THEN acc ELSE [acc EXCEPT !.text = Def(part.text)])
       ELSE ExtractPartsFirst(Tail(parts), acc)

RECURSIVE ExtractParts(_, _)
\* for (const part of contentParts): the last image and the last text win;
\* reading a property of a null part throws a TypeError
ExtractParts(parts, acc) ==
  IF Len(parts) = 0 THEN Return(acc)
  ELSE LET part == Head(parts) IN
       IF IsUndef(part)
       THEN Throw([name |-> "TypeError",
                   message |-> "Cannot read properties of null (reading 'inlineData')"])
       ELSE IF Has(part, "inlineData")
       THEN ExtractParts(Tail(parts), [acc EXCEPT !.image = Def(DataUri(part.inlineData))])
       ELSE IF Has(part, "text") /\ part.text # ""
       THEN ExtractParts(Tail(parts), [acc EXCEPT !.text = Def(part.text)])
       ELSE ExtractParts(Tail(parts), acc)

SuccessTextAtMost(image, text) ==
  IF Truthy(image)
  THEN (IF Truthy(text) /\ Len(text.val) <= TextLimit THEN text ELSE Undef)
  ELSE text

\* text: newImageBase64 ? (responseText?.length && responseText.length < 50
\*                          ? responseText : undefined) : responseText
SuccessText(image, text) ==
  IF Truthy(image)
  THEN (IF Truthy(text) /\ Len(text.val) < TextLimit THEN text ELSE Undef)
  ELSE text

\* uuid(): a fresh identifier, named by what it is made for and a serial number
Uuid(tag, n) == [tag |-> tag, n |-> n]

Message(id, role, text, image, isError) ==
  [id |-> id, role |-> role, text |-> text, image |-> image, isError |-> isError]

SuccessMessage(id, image, text) ==
  Message(id, "model", SuccessText(image, text), image, Undef)

Inspect(response, id) ==
  IF IsUndef(response)
  THEN Throw(Err("TypeError", "Cannot read properties of undefined (reading 'candidates')"))
  ELSE IF ~(Has(response, "candidates") /\ Len(response.candidates) > 0)
  THEN IF /\ Has(response, "promptFeedback")
          /\ Has(response.promptFeedback, "blockReason")
          /\ response.promptFeedback.blockReason # ""
       THEN Throw(Err("Error", "Blocked by safety: " \o response.promptFeedback.blockReason))
       ELSE Throw(Err("Error", "No candidates returned from model"))
  ELSE LET candidate == response.candidates[1] IN
       IF Has(candidate, "finishReason") /\ candidate.finishReason = "SAFETY"
       THEN Throw(Err("Error", "Generacion bloqueada por filtros de seguridad."))
       ELSE LET contentParts ==
                  IF Has(candidate, "content") /\ Has(candidate.content, "parts")
                  THEN candidate.content.parts ELSE <<>>
                x == ExtractParts(contentParts, [image |-> Undef, text |-> Undef])
            IN IF x.threw THEN x
               ELSE IF ~Truthy(x.value.image) /\ ~Truthy(x.value.text)
               THEN Throw(Err("Error", "Empty response content parts from model"))
               ELSE Return(SuccessMessage(id, x.value.image, x.value.text))

\* await ai.models.generateContent(...) and the rest of the try block
TryAttempt(outcome, id) ==
  IF outcome.threw THEN outcome ELSE Inspect(outcome.value, id)

(***************************************************************************)
(* What the remote service can answer to one request                       *)
(***************************************************************************)
Png == [mimeType |-> "image/png", data |-> "iVBORw0KGgo"]
Jpeg == [mimeType |-> "image/jpeg", data |-> "9j4AAQSkZJRg"]

Candidate(finishReason, parts) ==
  [finishReason |-> finishReason, content |-> [parts |-> parts]]

Response(candidates) == [candidates |-> candidates]

Blocked(blockReason) ==
  [candidates |-> <<>>, promptFeedback |-> [blockReason |-> blockReason]]

ImagePart(d) == [inlineData |-> d]
TextPart(t) == [text |-> t]

\* rejections of generateContent: the transport's and the service's errors
TransportErrors ==
  { Err("TypeError", "fetch failed"),
    Err("TypeError", "NetworkError when attempting to fetch resource."),
    Err("ApiError", "got status: 429 Too Many Requests"),
    Err("ApiError", "got status: 500 Internal Server Error"),
    Err("ApiError", "got status: 503 Service Unavailable"),
    Err("ApiError", "got status: 403 Forbidden"),
    Err("ApiError", "got status: 400 Bad Request"),
    Err("ApiError", "Invalid argument: unsupported image"),
    Err("ApiError", "got status: 400 request blocked"),
    Err("ApiError", "got status: 400 Bad Request (network)"),
    Err("ApiError", "got status: 503 no candidates") }

\* candidates that carry an image or a non-empty text
GoodResponses ==
  { Response(<<Candidate("STOP", <<ImagePart(Png)>>)>>),
    Response(<<Candidate("STOP", <<TextPart("I cannot edit this.")>>)>>),
    Response(<<Candidate("STOP", <<ImagePart(Png), TextPart(Rep("a", 10))>>)>>),
    Response(<<Candidate("STOP", <<[inlineData |-> Jpeg, text |-> "caption"]>>)>>),
    Response(<<Candidate("STOP", <<TextPart(Rep("b", 49)), ImagePart(Jpeg)>>)>>),
    Response(<<Candidate("STOP", <<ImagePart(Png), TextPart(Rep("c", 50))>>)>>),
    Response(<<Candidate("MAX_TOKENS", <<ImagePart(Png), TextPart(Rep("d", 200))>>)>>),
    Response(<<Candidate("STOP", <<ImagePart(Png), TextPart("one"), ImagePart(Jpeg), TextPart("two")>>),
               Candidate("STOP", <<TextPart("second candidate")>>)>>) }

\* responses without a usable candidate, well-formed or not
BadResponses ==
  { Blocked("SAFETY"),
    Blocked("OTHER"),
    Response(<<>>),
    [promptFeedback |-> [blockReason |-> ""]],
    Response(<<Candidate("SAFETY", <<ImagePart(Png)>>)>>),
    Response(<<Candidate("STOP", <<>>)>>),
    Response(<<[finishReason |-> "STOP"]>>),
    Response(<<Candidate("STOP", <<TextPart("")>>)>>),
    Response(<<Candidate("STOP", <<Undef>>)>>),
    Undef }

Outcomes ==
  {Throw(e) : e \in TransportErrors} \cup {Return(r) : r \in GoodResponses \cup BadResponses}

(***************************************************************************)
(* editImage: error classification                                         *)
(***************************************************************************)
\* Every error an attempt can end with, and its text as the catch block and
\* the final classifier read it: error.toString().toLowerCase().  The texts
\* and the sets of texts matching each test are tabulated once.
Errors ==
  TransportErrors \cup
  {Inspect(r, Undef).error : r \in {x \in GoodResponses \cup BadResponses : Inspect(x, Undef).threw}}

ErrStringOf == [e \in Errors |-> ToLowerCase(ErrToString(e))]

ErrStrings == {ErrStringOf[e] : e \in Errors} \cup {"unknown error"}

SafetyTexts ==
  {s \in ErrStrings : \/ Includes(s, "safety")
                      \/ Includes(s, "seguridad")
                      \/ Includes(s, "blocked")}

ClientTexts ==
  {s \in ErrStrings : Includes(s, "400") \/ Includes(s, "invalid argument")}

NetworkTexts ==
  {s \in ErrStrings : \/ Includes(s, "fetch failed")
                      \/ Includes(s, "network")
                      \/ Includes(s, "503")
                      \/ Includes(s, "500")
                      \/ Includes(s, "429")}

EmptyTexts ==
  {s \in ErrStrings : Includes(s, "empty response") \/ Includes(s, "no candidates")}

IsSafetyError(errString) == errString \in SafetyTexts

IsClientError(errString) == errString \in ClientTexts

IsNetworkError(errString) == errString \in NetworkTexts

IsEmptyErrorNever(errString) == FALSE

IsEmptyError(errString) == errString \in EmptyTexts

\* the two break statements of the catch block in App.tsx
HardStopApp(errString) == IsSafetyError(errString) \/ IsClientError(errString)

\* the one break statement of the catch block in geminiService.ts
HardStopService(errString) == IsSafetyError(errString)

HardStopClientOnly(impl, errString) == IsClientError(errString)

HardStopAlsoNetwork(impl, errString) ==
  IsSafetyError(errString) \/ IsClientError(errString) \/ IsNetworkError(errString)

HardStop(impl, errString) ==
  IF impl = "App" THEN HardStopApp(errString) ELSE HardStopService(errString)

SafetyMsg ==
  "Bloqueo de Seguridad: La imagen o el prompt infringen nuestras normas de contenido."
ClientMsg ==
  "Error de Solicitud: La imagen proporcionada no es valida o el formato no es compatible."
CloudMsgApp ==
  "Error de conexion de los motores en la nube. \n\nTodos los sistemas de respaldo intentaron procesar tu solicitud pero estan saturados. Por favor intenta mas tarde."
CloudMsgService ==
  "Error de conexion de los motores en la nube. \n\nTodos los sistemas de respaldo intentaron procesar tu solicitud pero no responden. Por favor intenta mas tarde."
EmptyMsg(engine) ==
  "El motor " \o engine \o " no pudo procesar esta solicitud especifica.\n\nSugerencia: Intenta reformular tu instruccion o prueba con otro motor (ej. Qwalc-3)."
GenericMsgNoEngine(engine) ==
  "Error Critico en el motor.\n\nNo pudimos completar la renderizacion tras multiples intentos."

GenericMsg(engine) ==
  "Error Critico en el motor " \o engine \o ".\n\nNo pudimos completar la renderizacion tras multiples intentos."

UserMessageApp(errString, engine) ==
  IF IsSafetyError(errString) THEN SafetyMsg
  ELSE IF IsClientError(errString) THEN ClientMsg
  ELSE IF IsNetworkError(errString) THEN CloudMsgApp
  ELSE IF IsEmptyError(errString) THEN EmptyMsg(engine)
  ELSE GenericMsg(engine)

UserMessageService(errString, engine) ==
  IF IsSafetyError(errString) THEN SafetyMsg
  ELSE IF IsNetworkError(errString) THEN CloudMsgService
  ELSE IF IsEmptyError(errString) THEN EmptyMsg(engine)
  ELSE GenericMsg(engine)

UserMessage(impl, errString, engine) ==
  IF impl = "App" THEN UserMessageApp(errString, engine)
  ELSE UserMessageService(errString, engine)

\* const errString = lastError ? lastError.toString().toLowerCase() : "unknown error"
FinalErrString(lastError) ==
  IF IsUndef(lastError) THEN "unknown error" ELSE ErrStringOf[lastError.val]

FailureMessageRaw(id, impl, lastError, engine) ==
  Message(id, "model",
          Def(IF IsUndef(lastError) THEN "unknown error" ELSE ErrToString(lastError.val)),
          Undef, Def(TRUE))

FailureMessage(id, impl, lastError, engine) ==
  Message(id, "model", Def(UserMessage(impl, FinalErrString(lastError), engine)), Undef, Def(TRUE))

\* the error taxonomy: the class of an error by its lower-cased text
ErrorClass(errString) ==
  IF IsSafetyError(errString) THEN "Safety"
  ELSE IF IsClientError(errString) THEN "InvalidRequest"
  ELSE IF IsNetworkError(errString) THEN "TransientUnavailable"
  ELSE IF IsEmptyError(errString) THEN "EmptyResponse"
  ELSE "Unclassified"

\* The first candidate of a response and its parts, as the service sent them
HasCandidate(response) ==
  ~IsUndef(response) /\ Has(response, "candidates") /\ Len(response.candidates) > 0

PartsOf(candidate) ==
  IF Has(candidate, "content") /\ Has(candidate.content, "parts")
  THEN candidate.content.parts ELSE <<>>

IsImagePart(part) == ~IsUndef(part) /\ Has(part, "inlineData")
IsTextPart(part) == ~IsUndef(part) /\ ~Has(part, "inlineData") /\ Has(part, "text") /\ part.text # ""

\* what one answer of the service amounts to in the taxonomy of outcomes:
\* "Usable" for a response whose first candidate is no safety rejection and
\* carries an image or a non-empty text, else the class of the failure
ResponseKind(response) ==
  IF IsUndef(response) THEN "Unclassified"
  ELSE IF ~HasCandidate(response)
  THEN IF /\ Has(response, "promptFeedback")
          /\ Has(response.promptFeedback, "blockReason")
          /\ response.promptFeedback.blockReason # ""
       THEN "Safety" ELSE "EmptyResponse"
  ELSE LET candidate == response.candidates[1]
           parts == PartsOf(candidate)
       IN IF Has(candidate, "finishReason") /\ candidate.finishReason = "SAFETY"
          THEN "Safety"
          ELSE IF \E k \in 1..Len(parts) : IsUndef(parts[k]) THEN "Unclassified"
          ELSE IF \E k \in 1..Len(parts) : IsImagePart(parts[k]) \/ IsTextPart(parts[k])
          THEN "Usable"
          ELSE "EmptyResponse"

OutcomeKind(outcome) ==
  IF outcome.threw
  THEN (IF IsUndef(outcome.error) THEN "Unclassified"
        ELSE ErrorClass(ErrStringOf[outcome.error]))
  ELSE ResponseKind(outcome.value)

(***************************************************************************)
(* State                                                                   *)
(***************************************************************************)
VARIABLES
  messages,           \* useState: the chat history
  input,              \* useState: the text box
  isLoading,          \* useState
  attachments,        \* useState: the pending attachments
  selectedEngine,     \* useState
  isPremiumUnlocked,  \* useState
  showLockedModal,    \* useState
  showCodeModal,      \* useState: the code redemption dialog
  redeemCode,         \* useState: the text of the code field
  redeemError,        \* useState
  adminMode,          \* useState
  opens,              \* the number of times the code dialog was opened
  rendered,           \* attachments and isLoading as the handlers of the last
                      \* committed render see them
  reading,            \* the handleFile calls awaiting blobToBase64
  editImageCopy,      \* the copy of editImage the import of App.tsx is bound to
  calls,              \* the invocations of editImage so far, each with its local state
  nextId,             \* the number of attachments created so far
  sends,              \* the number of handleSend calls
  picks               \* the number of handleFile calls that read a file

vars == <<messages, input, isLoading, attachments, selectedEngine,
          isPremiumUnlocked, showLockedModal, showCodeModal, redeemCode, redeemError,
          adminMode, opens, rendered, reading, editImageCopy, calls, nextId, sends, picks>>

\* the state of the code redemption dialog
codeModal == <<showCodeModal, redeemCode, redeemError, adminMode, opens>>

\* the user has sends, file selections and openings of the code dialog left
Budget == sends + picks + opens < MaxEvents

\* editImage up to its first await: the prompt is composed and the first
\* credential's request is sent
StartCallSticky(impl, images, prompt, engine, awaiter) ==
  LET fullPrompt == FullPrompt(engine, prompt)
      first == IF Len(calls) = 0 THEN 1 ELSE calls[Len(calls)].i
  IN
  [impl |-> impl, images |-> images, prompt |-> prompt, engine |-> engine,
   awaiter |-> awaiter,
   fullPrompt |-> fullPrompt,
   i |-> first,
   lastError |-> Undef,
   sent |-> <<Request(API_KEYS(impl)[first], images, fullPrompt)>>,
   log |-> <<>>,
   answer |-> Undef,
   status |-> "running",
   result |-> Undef]

StartCall(impl, images, prompt, engine, awaiter) ==
  LET fullPrompt == FullPrompt(engine, prompt) IN
  [impl |-> impl, images |-> images, prompt |-> prompt, engine |-> engine,
   awaiter |-> awaiter,
   fullPrompt |-> fullPrompt,
   i |-> 1,
   lastError |-> Undef,
   sent |-> <<Request(API_KEYS(impl)[1], images, fullPrompt)>>,
   log |-> <<>>,
   answer |-> Undef,
   status |-> "running",
   result |-> Undef]

\* the code after the loop: the failure message of the last error
Finish(c, id) ==
  [c EXCEPT !.status = "resolved",
            !.result = Def(FailureMessage(id, c.impl, c.lastError, c.engine))]

CatchAttemptRethrow(c, error, id) ==
  [c EXCEPT !.status = "rejected", !.lastError = Def(error)]

CatchAttemptNoRetry(c, error, id) ==
  Finish([c EXCEPT !.lastError = Def(error)], id)

\* the catch block, and the next iteration of the loop up to its await
CatchAttempt(c, error, id) ==
  IF IsUndef(error)
  THEN [c EXCEPT !.status = "rejected"]
  ELSE LET errString == ErrStringOf[error]
           c1 == [c EXCEPT !.lastError = Def(error)]
       IN IF HardStop(c.impl, errString) \/ c.i = Len(API_KEYS(c.impl))
          THEN Finish(c1, id)
          ELSE [c1 EXCEPT !.i = c.i + 1,
                          !.sent = Append(@, Request(API_KEYS(c.impl)[c.i + 1],
                                                     c.images, c.fullPrompt))]

AfterAttemptKeepsGoing(c, outcome, id) ==
  LET r == TryAttempt(outcome, id)
      c1 == [c EXCEPT !.log = Append(@, OutcomeKind(outcome)), !.answer = Def(outcome)]
  IN IF r.threw
     THEN CatchAttempt(c1, r.error, id)
     ELSE IF c.i = Len(API_KEYS(c.impl))
     THEN [c1 EXCEPT !.status = "resolved", !.result = Def(r.value)]
     ELSE [c1 EXCEPT !.result = Def(r.value),
                     !.i = c.i + 1,
                     !.sent = Append(@, Request(API_KEYS(c.impl)[c.i + 1],
                                                c.images, c.fullPrompt))]

\* one turn of the loop, from the settling of the awaited request on.  The
\* history of the invocation is kept in log, the kind of each settled
\* outcome, and in answer, the outcome settled last.
AfterAttempt(c, outcome, id) ==
  LET r == TryAttempt(outcome, id)
      c1 == [c EXCEPT !.log = Append(@, OutcomeKind(outcome)), !.answer = Def(outcome)]
  IN IF r.threw
     THEN CatchAttempt(c1, r.error, id)
     ELSE [c1 EXCEPT !.status = "resolved", !.result = Def(r.value)]

(***************************************************************************)
(* The chat UI: what the user can type and pick                            *)
(***************************************************************************)
\* what the user types into the text box (the box is emptied by a send)
Inputs == {"  ", " sky blue "}

File(type, content, readable) == [type |-> type, content |-> content, readable |-> readable]

JpegFile == File("image/jpeg", "9j4AAQSkZJRg", TRUE)
TextFile == File("text/plain", "aG9sYQ", TRUE)
BrokenFile == File("image/gif", "R0lGODlh", FALSE)

\* the FileList values of a file selection or a drop
FileLists == {<<>>, <<TextFile>>, <<TextFile, JpegFile, BrokenFile>>}

StartsWith(s, prefix) == Len(s) >= Len(prefix) /\ SubSeq(s, 1, Len(prefix)) = prefix

RECURSIVE Split(_, _)
\* String.prototype.split on a one-character separator
Split(s, sep) ==
  IF \E k \in 1..Len(s) : CharAt(s, k) = sep
  THEN LET k == CHOOSE j \in 1..Len(s) :
                  CharAt(s, j) = sep /\ \A h \in 1..(j - 1) : CharAt(s, h) # sep
       IN <<SubSeq(s, 1, k - 1)>> \o Split(SubSeq(s, k + 1, Len(s)), sep)
  ELSE <<s>>

\* FileReader.readAsDataURL
ReadAsDataURL(file) == "data:" \o file.type \o ";base64," \o file.content

\* blobToBase64: reader.result.split(',')[1]
BlobToBase64(file) == Split(ReadAsDataURL(file), ",")[2]

RECURSIVE NewAttachments(_, _)
\* the loop of handleFile: files that are no images are skipped, files that
\* cannot be read are logged and skipped; n is the next identifier
NewAttachments(files, n) ==
  IF Len(files) = 0 THEN <<>>
  ELSE LET file == Head(files) IN
       IF StartsWith(file.type, "image/") /\ file.readable
       THEN <<[id |-> Uuid("attachment", n), data |-> BlobToBase64(file), mimeType |-> file.type]>>
              \o NewAttachments(Tail(files), n + 1)
       ELSE NewAttachments(Tail(files), n)

DefaultPromptBlank == ""

DefaultPrompt == "Mejora esta imagen"

RejectionText ==
  "**Archivo Requerido**\n\nPor favor ingresa tu imagen primero. Mi arquitectura no me permite procesar solicitudes de texto sin una referencia visual (\"ingrediente\")."

CatchText == "Error de conexion de los motores en la nube. Intenta mas tarde."

\* what localStorage can hold when the application starts
SavedStates ==
  { [messages |-> <<>>, isPremiumUnlocked |-> FALSE],
    [messages |-> <<Message(Uuid("saved", 0), "model", Def("hola"), Undef, Undef)>>,
     isPremiumUnlocked |-> TRUE] }

UiInit(saved) ==
  /\ messages = saved.messages
  /\ isPremiumUnlocked = saved.isPremiumUnlocked
  /\ input = ""
  /\ isLoading = FALSE
  /\ attachments = <<>>
  /\ selectedEngine = "HTL-1"
  /\ showLockedModal = FALSE
  /\ showCodeModal = FALSE
  /\ redeemCode = ""
  /\ redeemError = ""
  /\ adminMode = FALSE
  /\ opens = 0
  /\ rendered = [attachments |-> <<>>, isLoading |-> FALSE]
  /\ reading = <<>>
  /\ nextId = 1
  /\ sends = 0
  /\ picks = 0

(***************************************************************************)
(* The chat UI: handlers.  A handler run from a click, a key or a change   *)
(* event is rendered before the next event; what a resumed async function  *)
(* sets is rendered by a later task (Render).                              *)
(***************************************************************************)
SendIgnoredNoLoadingTest == Trim(input) = "" /\ Len(rendered.attachments) = 0

\* if ((!input.trim() && attachments.length === 0) || isLoading) return;
SendIgnored ==
  (Trim(input) = "" /\ Len(rendered.attachments) = 0) \/ rendered.isLoading

ImageRequiredNever == FALSE

\* the strict image policy check
ImageRequired == Len(rendered.attachments) = 0

\* handleSend up to the await of editImage
HandleSend ==
  /\ sends < MaxSends /\ Budget
  /\ sends' = sends + 1
  /\ UNCHANGED <<selectedEngine, isPremiumUnlocked, codeModal, showLockedModal, reading,
                 editImageCopy, picks>>
  /\ IF SendIgnored
     THEN UNCHANGED <<messages, input, isLoading, attachments, rendered, calls, nextId>>
     ELSE LET userText == Trim(input) IN
          /\ input' = ""
          /\ IF ImageRequired
             THEN /\ messages' = messages \o
                       << Message(Uuid("user", sends'), "user", Def(userText), Undef, Undef),
                          Message(Uuid("rejection", sends'), "model", Def(RejectionText),
                                  Undef, Undef) >>
                  /\ UNCHANGED <<isLoading, attachments, rendered, calls, nextId>>
             ELSE LET currentAttachments == rendered.attachments IN
                  /\ attachments' = <<>>
                  /\ messages' = Append(messages,
                       Message(Uuid("user", sends'), "user", Def(userText),
                               IF Len(currentAttachments) > 0
                               THEN Def(DataUri(currentAttachments[1])) ELSE Undef,
                               Undef))
                  /\ isLoading' = TRUE
                  /\ rendered' = [attachments |-> <<>>, isLoading |-> TRUE]
                  /\ calls' = Append(calls,
                       StartCall(editImageCopy, currentAttachments,
                                 IF userText # "" THEN userText ELSE DefaultPrompt,
                                 selectedEngine, "handleSend"))
                  /\ UNCHANGED nextId

\* the send button: disabled={isLoading || (!input.trim() && attachments.length === 0)}
ClickSend ==
  /\ ~(rendered.isLoading \/ (Trim(input) = "" /\ Len(rendered.attachments) = 0))
  /\ HandleSend

KeyEvents == {[key |-> "Enter", shiftKey |-> FALSE],
              [key |-> "Enter", shiftKey |-> TRUE]}

HandleKeyDown(e) ==
  IF e.key = "Enter" /\ ~e.shiftKey
  THEN HandleSend
  ELSE UNCHANGED vars

HandleSendResumeSilent(c, n) ==
  /\ messages' = (IF c.status = "resolved" THEN Append(messages, c.result.val) ELSE messages)
  /\ isLoading' = FALSE
  /\ UNCHANGED <<input, attachments, selectedEngine, isPremiumUnlocked, codeModal, showLockedModal,
                 rendered, reading, editImageCopy, nextId, sends, picks>>

HandleSendResumePrepends(c, n) ==
  /\ messages' = <<IF c.status = "resolved" THEN c.result.val
                   ELSE Message(Uuid("catch", n), "model", Def(CatchText), Undef, Def(TRUE))>>
                 \o messages
  /\ isLoading' = FALSE
  /\ UNCHANGED <<input, attachments, selectedEngine, isPremiumUnlocked, codeModal,
                 showLockedModal, rendered, reading, editImageCopy, nextId, sends, picks>>

HandleSendResumeNoFinally(c, n) ==
  /\ messages' = Append(messages,
       IF c.status = "resolved" THEN c.result.val
       ELSE Message(Uuid("catch", n), "model", Def(CatchText), Undef, Def(TRUE)))
  /\ isLoading' = (IF c.status = "resolved" THEN FALSE ELSE isLoading)
  /\ UNCHANGED <<input, attachments, selectedEngine, isPremiumUnlocked, codeModal,
                 showLockedModal, rendered, reading, editImageCopy, nextId, sends, picks>>

\* the rest of handleSend, once editImage has settled as in call c, the n-th
HandleSendResume(c, n) ==
  /\ messages' = Append(messages,
       IF c.status = "resolved" THEN c.result.val
       ELSE Message(Uuid("catch", n), "model", Def(CatchText), Undef, Def(TRUE)))
  /\ isLoading' = FALSE
  /\ UNCHANGED <<input, attachments, selectedEngine, isPremiumUnlocked, codeModal, showLockedModal,
                 rendered, reading, editImageCopy, nextId, sends, picks>>

SetInput(v) ==
  /\ input # v
  /\ input' = v
  /\ UNCHANGED <<messages, isLoading, attachments, selectedEngine, isPremiumUnlocked, codeModal,
                 showLockedModal, rendered, reading, editImageCopy, calls, nextId,
                 sends, picks>>

\* handleFile up to its first await (handleDrop passes the dropped files on);
\* without an image among the files it ends at once and sets nothing
HandleFile(files) ==
  IF \E k \in 1..Len(files) : StartsWith(files[k].type, "image/")
  THEN /\ picks < MaxFiles /\ Budget
       /\ picks' = picks + 1
       /\ reading' = Append(reading, files)
       /\ UNCHANGED <<messages, input, isLoading, attachments, selectedEngine,
                      isPremiumUnlocked, codeModal, showLockedModal, rendered, editImageCopy, calls,
                      nextId, sends>>
  ELSE UNCHANGED vars

\* the rest of handleFile, once its files are read
HandleFileResume(j) ==
  LET newAttachments == NewAttachments(reading[j], nextId) IN
  /\ attachments' = attachments \o newAttachments
  /\ nextId' = nextId + Len(newAttachments)
  /\ reading' = [k \in 1..(Len(reading) - 1) |-> IF k < j THEN reading[k] ELSE reading[k + 1]]
  /\ UNCHANGED <<messages, input, isLoading, selectedEngine, isPremiumUnlocked, codeModal,
                 showLockedModal, rendered, editImageCopy, calls, sends, picks>>

Without(atts, id) == SelectSeq(atts, LAMBDA a : a.id # id)

RemoveAttachment(id) ==
  /\ attachments' = Without(attachments, id)
  /\ rendered' = [rendered EXCEPT !.attachments = Without(@, id)]
  /\ UNCHANGED <<messages, input, isLoading, selectedEngine, isPremiumUnlocked, codeModal,
                 showLockedModal, reading, editImageCopy, calls, nextId, sends, picks>>

HandleEngineSelect(engine) ==
  /\ IF engine = "Snapic-gen3" /\ ~isPremiumUnlocked
     THEN showLockedModal' = TRUE /\ UNCHANGED selectedEngine
     ELSE selectedEngine' = engine /\ UNCHANGED showLockedModal
  /\ UNCHANGED <<messages, input, isLoading, attachments, isPremiumUnlocked, codeModal, rendered,
                 reading, editImageCopy, calls, nextId, sends, picks>>

CloseLockedModal ==
  /\ showLockedModal
  /\ showLockedModal' = FALSE
  /\ UNCHANGED <<messages, input, isLoading, attachments, selectedEngine,
                 isPremiumUnlocked, codeModal, rendered, reading, editImageCopy, calls, nextId,
                 sends, picks>>

\* what the user types into the code field
Codes == {" samcpic ", "102938XMAS2025", "XMAS2025"}

RedeemErrorText == "Codigo invalido o expirado."

\* the button "Canjear Codigo", rendered while the premium engine is locked
OpenCodeModal ==
  /\ ~isPremiumUnlocked
  /\ ~showCodeModal
  /\ Budget
  /\ opens' = opens + 1
  /\ showCodeModal' = TRUE
  /\ UNCHANGED <<messages, input, isLoading, attachments, selectedEngine,
                 isPremiumUnlocked, showLockedModal, redeemCode, redeemError, adminMode,
                 rendered, reading, editImageCopy, calls, nextId, sends, picks>>

\* the backdrop and the cancel button of the code dialog
CloseCodeModal ==
  /\ showCodeModal
  /\ showCodeModal' = FALSE
  /\ UNCHANGED <<messages, input, isLoading, attachments, selectedEngine,
                 isPremiumUnlocked, showLockedModal, redeemCode, redeemError, adminMode, opens,
                 rendered, reading, editImageCopy, calls, nextId, sends, picks>>

\* the code field of the dialog: onChange={(e) => setRedeemCode(e.target.value)}
SetRedeemCode(v) ==
  /\ showCodeModal
  /\ redeemCode # v
  /\ redeemCode' = v
  /\ UNCHANGED <<messages, input, isLoading, attachments, selectedEngine,
                 isPremiumUnlocked, showLockedModal, showCodeModal, redeemError, adminMode, opens,
                 rendered, reading, editImageCopy, calls, nextId, sends, picks>>

HandleVerifyCodeAnyCode ==
  /\ showCodeModal
  /\ isPremiumUnlocked' = TRUE
  /\ showCodeModal' = FALSE
  /\ selectedEngine' = "Snapic-gen3"
  /\ redeemCode' = ""
  /\ redeemError' = ""
  /\ UNCHANGED <<messages, input, isLoading, attachments, showLockedModal, adminMode, opens,
                 rendered, reading, editImageCopy, calls, nextId, sends, picks>>

\* the button "EJECUTAR" of the code dialog
HandleVerifyCode ==
  /\ showCodeModal
  /\ LET code == Trim(redeemCode) IN
       IF code = "samcpic"
       THEN /\ isPremiumUnlocked' = TRUE
            /\ adminMode' = TRUE
            /\ showCodeModal' = FALSE
            /\ selectedEngine' = "Snapic-gen3"
            /\ redeemCode' = ""
            /\ redeemError' = ""
       ELSE IF code = "102938XMAS2025"
       THEN /\ isPremiumUnlocked' = TRUE
            /\ showCodeModal' = FALSE
            /\ selectedEngine' = "Snapic-gen3"
            /\ redeemCode' = ""
            /\ redeemError' = ""
            /\ UNCHANGED adminMode
       ELSE /\ redeemError' = RedeemErrorText
            /\ UNCHANGED <<isPremiumUnlocked, adminMode, showCodeModal, selectedEngine,
                           redeemCode>>
  /\ UNCHANGED <<messages, input, isLoading, attachments, showLockedModal, rendered,
                 reading, editImageCopy, calls, nextId, sends, picks, opens>>

\* clearHistory, the user having answered the confirm dialog
ClearHistory(confirmed) ==
  /\ messages' = IF confirmed THEN <<>> ELSE messages
  /\ UNCHANGED <<input, isLoading, attachments, selectedEngine, isPremiumUnlocked, codeModal,
                 showLockedModal, rendered, reading, editImageCopy, calls, nextId,
                 sends, picks>>

\* React commits what resumed async functions have set
Render ==
  /\ rendered # [attachments |-> attachments, isLoading |-> isLoading]
  /\ rendered' = [attachments |-> attachments, isLoading |-> isLoading]
  /\ UNCHANGED <<messages, input, isLoading, attachments, selectedEngine,
                 isPremiumUnlocked, codeModal, showLockedModal, reading, editImageCopy, calls,
                 nextId, sends, picks>>

\* the request awaited by call n settles with outcome o; the settling of
\* editImage resumes the handleSend that awaits it
Respond(n, o) ==
  /\ calls[n].status = "running"
  /\ LET c == AfterAttempt(calls[n], o, Uuid("result", n)) IN
       /\ calls' = [calls EXCEPT ![n] = c]
       /\ IF c.status # "running" /\ c.awaiter = "handleSend"
          THEN HandleSendResume(c, n)
          ELSE UNCHANGED <<messages, input, isLoading, attachments, selectedEngine,
                          isPremiumUnlocked, codeModal, showLockedModal, rendered, reading,
                          editImageCopy, nextId, sends, picks>>

(***************************************************************************)
(* The application                                                         *)
(***************************************************************************)
\* the answers of the remote service the application is run against: a
\* blocked prompt, which ends the call with a failure result, a rejection with
\* no error value, which makes the catch block of editImage throw, and a
\* response with an image and a short text
UiOutcomes ==
  { Return(Blocked("SAFETY")),
    Throw(Undef),
    Return(Response(<<Candidate("STOP", <<ImagePart(Png), TextPart(Rep("a", 10))>>)>>)) }

Init ==
  /\ \E saved \in SavedStates : UiInit(saved)
  /\ editImageCopy \in Impls
  /\ calls = <<>>

Next ==
  \/ ClickSend
  \/ \E e \in KeyEvents : HandleKeyDown(e)
  \/ \E v \in Inputs : SetInput(v)
  \/ \E files \in FileLists : HandleFile(files)
  \/ \E j \in DOMAIN reading : HandleFileResume(j)
  \/ \E k \in 1..Len(rendered.attachments) : RemoveAttachment(rendered.attachments[k].id)
  \/ \E engine \in EngineType : HandleEngineSelect(engine)
  \/ CloseLockedModal
  \/ OpenCodeModal
  \/ CloseCodeModal
  \/ \E v \in Codes : SetRedeemCode(v)
  \/ HandleVerifyCode
  \/ \E confirmed \in BOOLEAN : ClearHistory(confirmed)
  \/ Render
  \/ \E n \in DOMAIN calls, o \in UiOutcomes : Respond(n, o)

Spec == Init /\ [][Next]_vars

(***************************************************************************)
(* The chat under fair scheduling: every handler but those of the code     *)
(* dialog, which neither read nor write the attachments, the loading flag, *)
(* the history and the calls of editImage.                                 *)
(***************************************************************************)
NextLoading ==
  \/ ClickSend
  \/ \E e \in KeyEvents : HandleKeyDown(e)
  \/ \E v \in Inputs : SetInput(v)
  \/ \E files \in FileLists : HandleFile(files)
  \/ \E j \in DOMAIN reading : HandleFileResume(j)
  \/ \E k \in 1..Len(rendered.attachments) : RemoveAttachment(rendered.attachments[k].id)
  \/ \E engine \in EngineType : HandleEngineSelect(engine)
  \/ CloseLockedModal
  \/ \E confirmed \in BOOLEAN : ClearHistory(confirmed)
  \/ Render
  \/ \E n \in DOMAIN calls, o \in UiOutcomes : Respond(n, o)

\* React's scheduler runs the render it has queued for a state update
SpecLoading == Init /\ [][NextLoading]_vars /\ WF_vars(Render)

(***************************************************************************)
(* Direct invocations of editImage                                         *)
(***************************************************************************)
Attachment(id, d) == [id |-> id, data |-> d.data, mimeType |-> d.mimeType]

ImagePool == {Attachment(Uuid("attachment", 1), Png), Attachment(Uuid("attachment", 2), Jpeg)}

ImageSeqs == UNION {[1..n -> ImagePool] : n \in 0..MaxImages}

Prompts == {DefaultPrompt, "sky blue"}

EngineNames == EngineType \cup {"Turbo-9"}

InitOrch ==
  /\ UiInit([messages |-> <<>>, isPremiumUnlocked |-> FALSE])
  /\ editImageCopy \in Impls
  /\ \E images \in ImageSeqs, prompt \in Prompts, engine \in EngineNames :
       calls = <<StartCall(editImageCopy, images, prompt, engine, "direct")>>

NextOrch == \E n \in DOMAIN calls, o \in Outcomes : Respond(n, o)

SpecOrch == InitOrch /\ [][NextOrch]_vars

\* every awaited request settles: the transport answers or gives up
SpecOrchLive == SpecOrch /\ WF_vars(NextOrch)

(***************************************************************************)
(* Several direct invocations of editImage, one after or during another    *)
(***************************************************************************)
SeqImages == {<<Attachment(Uuid("attachment", 1), Png)>>,
              <<Attachment(Uuid("attachment", 2), Jpeg), Attachment(Uuid("attachment", 1), Png)>>}

SeqEngines == {"HTL-1", "Qwalc-3"}

SeqOutcomes ==
  { Throw(Err("ApiError", "got status: 429 Too Many Requests")),
    Throw(Err("ApiError", "got status: 400 Bad Request")),
    Return(Response(<<Candidate("STOP", <<ImagePart(Png)>>)>>)) }

\* a call of editImage by a caller that is not the chat
Invoke(images, prompt, engine) ==
  /\ Len(calls) < MaxCalls
  /\ calls' = Append(calls, StartCall(editImageCopy, images, prompt, engine, "direct"))
  /\ UNCHANGED <<messages, input, isLoading, attachments, selectedEngine,
                 isPremiumUnlocked, codeModal, showLockedModal, rendered, reading, editImageCopy,
                 nextId, sends, picks>>

InitSeq ==
  /\ \E saved \in SavedStates : UiInit(saved)
  /\ editImageCopy \in Impls
  /\ calls = <<>>

NextSeq ==
  \/ \E images \in SeqImages, engine \in SeqEngines : Invoke(images, "sky blue", engine)
  \/ \E n \in DOMAIN calls, o \in SeqOutcomes : Respond(n, o)

SpecSeq == InitSeq /\ [][NextSeq]_vars

(***************************************************************************)
(* Properties of editImage                                                 *)
(***************************************************************************)

Keys(c) == API_KEYS(c.impl)

\* a value of the Message type with the role of a result
IsResultMessage(m) ==
  /\ DOMAIN m = {"id", "role", "text", "image", "isError"}
  /\ m.id.tag = "result"
  /\ m.role = "model"
  /\ m.text = Undef \/ (m.text.def /\ Len(m.text.val) > 0)
  /\ m.image = Undef \/ (m.image.def /\ StartsWith(m.image.val, "data:"))
  /\ m.isError \in {Undef, Def(TRUE)}
  /\ Truthy(m.text) \/ Truthy(m.image)

IsFailure(c) == c.status = "resolved" /\ c.result.val.isError = Def(TRUE)
IsSuccess(c) == c.status = "resolved" /\ c.result.val.isError = Undef

C1_Settled(c) ==
  /\ c.status \in {"running", "resolved"}
  /\ c.status = "running" =>
       /\ c.result = Undef
       /\ Len(c.sent) = Len(c.log) + 1
       /\ Len(c.sent) <= Len(Keys(c))
  /\ c.status = "resolved" =>
       /\ c.result.def
       /\ IsResultMessage(c.result.val)
       /\ Len(c.sent) = Len(c.log)

C1_Once ==
  \A n \in DOMAIN calls :
    calls[n].status # "running" => n \in DOMAIN calls' /\ calls'[n] = calls[n]

C2_InPoolOrder(c) ==
  /\ Len(c.sent) <= Len(Keys(c))
  /\ \A k \in 1..Len(c.sent) : c.sent[k].apiKey = Keys(c)[k]

\* C2: short circuit on success.  When the request made with the key at
\* position k is answered with a usable candidate, the invocation resolves at
\* once with a success result and no key after k is ever contacted: k is the
\* last outcome and the last request for ever after, so a success on the first
\* key leaves exactly one outbound request.
C2_ShortCircuitOnSuccess ==
  \A n \in DOMAIN calls :
    LET c == calls[n] IN
      /\ C2_InPoolOrder(c)
      /\ \A k \in 1..Len(c.log) :
           c.log[k] = "Usable" =>
             /\ k = Len(c.log)
             /\ Len(c.sent) = k
             /\ IsSuccess(c)

\* a success on the first key of the four-key pool: one request was made
C2_Witness ==
  \E n \in DOMAIN calls :
    LET c == calls[n] IN
      /\ Len(Keys(c)) = 4
      /\ c.log = <<"Usable">>
      /\ Len(c.sent) = 1
      /\ IsSuccess(c)

\* C3: when the error of the current attempt is of the class Safety or
\* InvalidRequest, the loop halts at once: the attempt is the last one, no
\* later key is contacted, though keys remain, and a failure result is made.
C3_NonRetryableHalts ==
  \A n \in DOMAIN calls :
    LET c == calls[n] IN
      \A k \in 1..Len(c.log) :
        c.log[k] \in {"Safety", "InvalidRequest"} =>
          /\ k = Len(c.log)
          /\ Len(c.sent) = k
          /\ IsFailure(c)

AllTransient(c) ==
  Len(c.log) > 0 /\ \A k \in 1..Len(c.log) : c.log[k] = "TransientUnavailable"

CloudMessages == {CloudMsgApp, CloudMsgService}

\* C4: when every attempt fails with a TransientUnavailable error, every key
\* of the pool is tried exactly once, in pool order (the invocation goes on
\* while keys remain), and the result is the cloud connection message,
\* flagged as an error.
C4_AllTransientExhaustsPool ==
  \A n \in DOMAIN calls :
    LET c == calls[n] IN
      AllTransient(c) =>
        /\ C2_InPoolOrder(c)
        /\ c.status = "running" => Len(c.log) < Len(Keys(c))
        /\ c.status # "running" =>
             /\ Len(c.log) = Len(Keys(c))
             /\ [k \in 1..Len(c.sent) |-> c.sent[k].apiKey] = Keys(c)
             /\ IsFailure(c)
             /\ c.result.val.text.val \in CloudMessages
             /\ c.result.val.image = Undef

\* all four keys answered with a transient error
C4_Witness ==
  \E n \in DOMAIN calls :
    LET c == calls[n] IN
      /\ AllTransient(c)
      /\ Len(c.log) = 4
      /\ c.status = "resolved"
      /\ c.result.val.text = Def(CloudMsgApp)

\* the image and the text that a usable response carries: those of the last
\* image part and of the last non-empty text part of its first candidate
ImageIn(parts) ==
  LET K == {k \in 1..Len(parts) : IsImagePart(parts[k])} IN
    IF K = {} THEN Undef
    ELSE LET k == CHOOSE m \in K : \A j \in K : j <= m IN
           Def(DataUri(parts[k].inlineData))

TextIn(parts) ==
  LET K == {k \in 1..Len(parts) : IsTextPart(parts[k])} IN
    IF K = {} THEN Undef
    ELSE LET k == CHOOSE m \in K : \A j \in K : j <= m IN Def(parts[k].text)

C5_Kept(image, text, m) ==
  /\ (image.def /\ ~text.def) => (m.image = image /\ m.text = Undef)
  /\ (text.def /\ ~image.def) => (m.text = text /\ m.image = Undef)
  /\ (image.def /\ text.def /\ Len(text.val) < 50) => (m.image = image /\ m.text = text)
  /\ (image.def /\ text.def /\ Len(text.val) >= 50) => (m.image = image /\ m.text = Undef)

\* C5: the success result keeps the image alone when there is no text, the
\* text alone when there is no image, both when the text is shorter than 50
\* characters, and the image alone when the text has 50 characters or more.
C5_SuccessConstruction ==
  \A n \in DOMAIN calls :
    LET c == calls[n] IN
      IsSuccess(c) =>
        LET parts == PartsOf(c.answer.val.value.candidates[1]) IN
          /\ c.result.val.role = "model"
          /\ C5_Kept(ImageIn(parts), TextIn(parts), c.result.val)

\* a success whose text of exactly 50 characters was dropped
C5_Witness ==
  \E n \in DOMAIN calls :
    LET c == calls[n] IN
      /\ IsSuccess(c)
      /\ LET parts == PartsOf(c.answer.val.value.candidates[1]) IN
           /\ ImageIn(parts).def
           /\ TextIn(parts).def
           /\ Len(TextIn(parts).val) = 50
      /\ c.result.val.text = Undef
      /\ c.result.val.image.def

\* the message that the order of the classes gives to the text of an error
C6_Expected(errString, engine) ==
  IF IsSafetyError(errString) THEN {SafetyMsg}
  ELSE IF IsClientError(errString) THEN {ClientMsg}
  ELSE IF IsNetworkError(errString) THEN CloudMessages
  ELSE IF IsEmptyError(errString) THEN {EmptyMsg(engine)}
  ELSE {GenericMsg(engine)}

\* C6: the failure message is chosen from the last error, the first class in
\* the order safety, invalid request, network, empty response, generic whose
\* indication the error carries; an error with indications of several classes
\* gets the message of the earliest of them.
C6_FirstMatchWins ==
  \A n \in DOMAIN calls :
    LET c == calls[n] IN
      IsFailure(c) =>
        c.result.val.text.val \in C6_Expected(FinalErrString(c.lastError), c.engine)

\* C7: each outbound request of an invocation with N attachments holds N
\* inline image parts, in the order of the attachments and with their MIME
\* types and data, then one text part with the composed instruction; the
\* payload is the same for every key tried.
C7_PayloadShape ==
  \A n \in DOMAIN calls :
    LET c == calls[n]
        N == Len(c.images)
    IN \A k \in 1..Len(c.sent) :
         LET parts == c.sent[k].contents[1].parts IN
           /\ Len(parts) = N + 1
           /\ \A j \in 1..N :
                /\ DOMAIN parts[j] = {"inlineData"}
                /\ parts[j].inlineData.mimeType = c.images[j].mimeType
                /\ parts[j].inlineData.data = c.images[j].data
           /\ DOMAIN parts[N + 1] = {"text"}
           /\ parts[N + 1].text = c.fullPrompt
           /\ c.sent[k].contents = c.sent[1].contents

\* two different attachments, sent twice: the second request repeats the first
C7_Witness ==
  \E n \in DOMAIN calls :
    LET c == calls[n] IN
      /\ Len(c.images) = 2
      /\ c.images[1].data # c.images[2].data
      /\ Len(c.sent) >= 2
      /\ c.sent[2].contents[1].parts[1].inlineData.data = c.images[1].data
      /\ c.sent[2].contents[1].parts[2].inlineData.data = c.images[2].data

C8_Prefix ==
  [e \in EngineNames |->
     IF e = "HTL-1"
     THEN "MODE: FAST/BASIC. Prioritize speed. Do not add unnecessary details."
     ELSE IF e = "Qwalc-3"
     THEN "MODE: BALANCED/DETAILED. Enhance lighting and texture."
     ELSE IF e = "Snapic-gen3"
     THEN "MODE: ULTRA/CREATIVE. Maximum artistic freedom and fidelity."
     ELSE ""]

C8_Composed(c) ==
  "[SYSTEM: You are SMAPic. " \o C8_Prefix[c.engine]
    \o " DO NOT CONVERSE. JUST EDIT/GENERATE.] " \o c.prompt

\* the position of the loop follows from the outcomes so far, and not from
\* the engine: one request per outcome and one more while running
C8_LoopPosition(c) ==
  /\ c.status \in {"running", "resolved"}
  /\ c.i = Len(c.sent)
  /\ Len(c.sent) = Len(c.log) + (IF c.status = "running" THEN 1 ELSE 0)
  /\ c.status = "resolved" =>
       \/ c.log[Len(c.log)] = "Usable"
       \/ HardStop(c.impl, FinalErrString(c.lastError))
       \/ Len(c.log) = Len(Keys(c))
  /\ \A k \in 1..(Len(c.log) - 1) :
       c.log[k] # "Usable" /\ c.log[k] # "Safety"

\* C8: each engine of the enumeration has its own instruction prefix, any
\* other engine name has the empty prefix, and the request goes through the
\* loop of keys with any engine name as with a known one.
C8_EnginePrefix ==
  /\ \A e, f \in EngineType : e # f => C8_Prefix[e] # C8_Prefix[f]
  /\ \A e \in EngineType : C8_Prefix[e] # ""
  /\ \A n \in DOMAIN calls :
       LET c == calls[n] IN
         /\ c.fullPrompt = C8_Composed(c)
         /\ \A k \in 1..Len(c.sent) :
              c.sent[k].contents[1].parts[Len(c.images) + 1].text = C8_Composed(c)
         /\ C8_LoopPosition(c)

\* an invocation with an unknown engine name that tried a second key and
\* resolved
C8_Witness ==
  \E n \in DOMAIN calls :
    LET c == calls[n] IN
      /\ c.engine \notin EngineType
      /\ c.fullPrompt = "[SYSTEM: You are SMAPic.  DO NOT CONVERSE. JUST EDIT/GENERATE.] " \o c.prompt
      /\ Len(c.sent) >= 2
      /\ c.status = "resolved"

(***************************************************************************)
(* Properties of the application                                           *)
(***************************************************************************)

\* a send trigger: handleSend is entered, from the button or the Enter key
SendTriggered == sends' = sends + 1

\* the attachment list that the triggered handleSend reads is empty
NoAttachment == Len(rendered.attachments) = 0

C9_Rejected ==
  /\ Len(messages') = Len(messages) + 2
  /\ SubSeq(messages', 1, Len(messages)) = messages
  /\ LET userMsg == messages'[Len(messages) + 1]
         rejectionMsg == messages'[Len(messages) + 2]
     IN /\ userMsg.role = "user"
        /\ userMsg.text = Def(Trim(input))
        /\ userMsg.image = Undef
        /\ rejectionMsg.role = "model"
        /\ rejectionMsg.text = Def(RejectionText)
        /\ rejectionMsg.image = Undef
  /\ calls' = calls
  /\ isLoading' = isLoading

\* C9 as stated: in every state of the application, a send with an empty
\* attachment list appends the user message and the rejection message, calls
\* no editImage and leaves isLoading alone.
C9_EverySendWithoutAttachmentRejected ==
  [][(SendTriggered /\ NoAttachment) => C9_Rejected]_vars

\* C9: editImage is never called with an empty attachment list.  A send with
\* an empty attachment list, a non-blank input and no send in progress
\* appends the user message and the rejection message, calls no editImage and
\* leaves isLoading alone; with a blank input or a send in progress it is
\* ignored: nothing is appended and nothing is called.
C9_NoCallWithoutAttachment ==
  /\ [](\A n \in DOMAIN calls : Len(calls[n].images) >= 1)
  /\ [][(SendTriggered /\ NoAttachment /\ Trim(input) # "" /\ ~rendered.isLoading)
          => C9_Rejected]_vars
  /\ [][(SendTriggered /\ NoAttachment /\ (Trim(input) = "" \/ rendered.isLoading))
          => UNCHANGED <<messages, calls, isLoading>>]_vars

\* a text was sent without attachment: it is in the history, followed by the
\* rejection, and editImage has not been called
C9_Witness ==
  /\ calls = <<>>
  /\ ~isLoading
  /\ \E k \in 1..(Len(messages) - 1) :
       /\ messages[k].role = "user"
       /\ messages[k].text = Def("sky blue")
       /\ messages[k].image = Undef
       /\ messages[k + 1].id.tag = "rejection"
       /\ messages[k + 1].text = Def(RejectionText)

InFlight == {n \in DOMAIN calls : calls[n].status = "running"}

\* C10: at most one call of editImage is in flight at any time, and a send
\* trigger, from the button or the Enter key, that comes while one is in
\* flight is ignored: it starts no call and changes nothing of the chat.
C10_SingleOrchestration ==
  /\ [](Cardinality(InFlight) <= 1)
  /\ [][(SendTriggered /\ InFlight # {})
          => UNCHANGED <<messages, input, isLoading, attachments, calls>>]_vars

\* the first trigger started a call, the second came while it was in flight
C10_Witness ==
  /\ sends = 2
  /\ Len(calls) = 1
  /\ calls[1].status = "running"
  /\ isLoading
  /\ \E k \in 1..Len(messages) :
       messages[k].id = Uuid("user", 1) /\ messages[k].image.def

\* an invocation that ended without a success: a failure result or a throw
Failed(c) == c.status = "rejected" \/ IsFailure(c)

C11_OneErrorMessage ==
  /\ Len(messages') = Len(messages) + 1
  /\ SubSeq(messages', 1, Len(messages)) = messages
  /\ messages'[Len(messages')].role = "model"
  /\ messages'[Len(messages')].isError = Def(TRUE)
  /\ messages'[Len(messages')].text.def

\* C11: when an orchestration started by a send fails, by a failure result of
\* editImage or by a throw of editImage, exactly one message is appended to
\* the history, with the role model and the error flag.
C11_FailureRendered ==
  [][\A n \in DOMAIN calls :
       (/\ calls[n].awaiter = "handleSend"
        /\ calls[n].status = "running"
        /\ Failed(calls'[n])) => C11_OneErrorMessage]_vars

\* one send failed with a failure result, the other with a throw of
\* editImage: the history holds the message of each
C11_Witness ==
  /\ \E n \in DOMAIN calls : IsFailure(calls[n])
  /\ \E n \in DOMAIN calls : calls[n].status = "rejected"
  /\ \E k \in 1..Len(messages) :
       /\ messages[k].id.tag = "result"
       /\ messages[k].role = "model"
       /\ messages[k].isError = Def(TRUE)
  /\ \E k \in 1..Len(messages) :
       /\ messages[k].id.tag = "catch"
       /\ messages[k].role = "model"
       /\ messages[k].text = Def(CatchText)
       /\ messages[k].isError = Def(TRUE)

\* a string with a character that is no space
NotBlank(s) == \E k \in 1..Len(s) : CharAt(s, k) # " "

\* the instruction that a send must pass on, for each content of the input
\* box: the input without the spaces around it, or the default instruction
C12_Instruction ==
  [v \in Inputs \cup {""} |->
     IF v = " sky blue " THEN "sky blue" ELSE "Mejora esta imagen"]

\* C12: the instruction passed to editImage is never blank: a send with
\* attachments and an empty or whitespace-only input passes the default
\* instruction, any other send passes the trimmed input as it is.
C12_InstructionNeverBlank ==
  /\ [](\A n \in DOMAIN calls : NotBlank(calls[n].prompt))
  /\ [][Len(calls') > Len(calls) =>
          /\ Len(calls') = Len(calls) + 1
          /\ Len(rendered.attachments) > 0
          /\ calls'[Len(calls')].prompt = C12_Instruction[input]]_vars

\* a send with an attachment and nothing but spaces in the input box: the
\* user message has the empty text and the call the default instruction
C12_Witness ==
  \E n \in DOMAIN calls :
    /\ calls[n].prompt = "Mejora esta imagen"
    /\ Len(calls[n].images) > 0
    /\ \E k \in 1..Len(messages) :
         /\ messages[k].role = "user"
         /\ messages[k].text = Def("")
         /\ messages[k].image.def

(***************************************************************************)
(* Properties of editImage: the classes of failures                        *)
(***************************************************************************)

\* the response that the invocation was answered with last, if it was one
Answered(c) == c.answer.def /\ ~c.answer.val.threw

\* a response without candidate and with a block reason, or whose first
\* candidate has the finish reason SAFETY
C13_SafetyResponse(response) ==
  /\ ~IsUndef(response)
  /\ IF Has(response, "candidates") /\ Len(response.candidates) > 0
     THEN /\ Has(response.candidates[1], "finishReason")
          /\ response.candidates[1].finishReason = "SAFETY"
     ELSE /\ Has(response, "promptFeedback")
          /\ Has(response.promptFeedback, "blockReason")
          /\ response.promptFeedback.blockReason # ""

\* C13: a response without candidate and with a top-level block reason, or
\* with a first candidate of finish reason SAFETY, is a safety failure that
\* is not retried: no further key is tried and the result is the content
\* policy message, flagged as an error, whatever parts the candidate has.
C13_SafetyResponseHalts ==
  \A n \in DOMAIN calls :
    LET c == calls[n] IN
      (Answered(c) /\ C13_SafetyResponse(c.answer.val.value)) =>
        /\ c.status = "resolved"
        /\ Len(c.sent) = Len(c.log)
        /\ c.result.val.role = "model"
        /\ c.result.val.isError = Def(TRUE)
        /\ c.result.val.image = Undef
        /\ c.result.val.text =
             Def("Bloqueo de Seguridad: La imagen o el prompt infringen nuestras normas de contenido.")

\* the first key was answered by a candidate with an image and the finish
\* reason SAFETY: the other keys stay untried
C13_Witness ==
  \E n \in DOMAIN calls :
    LET c == calls[n] IN
      /\ Answered(c)
      /\ HasCandidate(c.answer.val.value)
      /\ c.answer.val.value.candidates[1].finishReason = "SAFETY"
      /\ \E k \in 1..Len(PartsOf(c.answer.val.value.candidates[1])) :
           IsImagePart(PartsOf(c.answer.val.value.candidates[1])[k])
      /\ Len(c.sent) = 1
      /\ Len(Keys(c)) > 1
      /\ IsFailure(c)

\* a well-formed response without candidate and without block reason, or
\* whose first candidate, no safety rejection, has no image part and no
\* non-empty text part
C14_EmptyResponse(response) ==
  /\ ~IsUndef(response)
  /\ ~C13_SafetyResponse(response)
  /\ HasCandidate(response) =>
       LET parts == PartsOf(response.candidates[1]) IN
         \A k \in 1..Len(parts) :
           /\ ~IsUndef(parts[k])
           /\ ~Has(parts[k], "inlineData")
           /\ Has(parts[k], "text") => parts[k].text = ""

C14_Message(engine) ==
  "El motor " \o engine \o " no pudo procesar esta solicitud especifica.\n\nSugerencia: Intenta reformular tu instruccion o prueba con otro motor (ej. Qwalc-3)."

\* C14: a response without candidate and block reason, or with a candidate
\* without image and non-empty text, is an empty response failure that is
\* retried: the next key is tried while one remains, and when it is the last
\* error the result is the message that the engine could not process the
\* request, with the name of the engine.
C14_EmptyResponseRetried ==
  \A n \in DOMAIN calls :
    LET c == calls[n] IN
      (Answered(c) /\ C14_EmptyResponse(c.answer.val.value)) =>
        /\ c.log[Len(c.log)] = "EmptyResponse"
        /\ Len(c.log) < Len(Keys(c)) =>
             /\ c.status = "running"
             /\ Len(c.sent) = Len(c.log) + 1
             /\ c.sent[Len(c.sent)].apiKey = Keys(c)[Len(c.log) + 1]
        /\ Len(c.log) = Len(Keys(c)) =>
             /\ c.status = "resolved"
             /\ c.result.val.isError = Def(TRUE)
             /\ c.result.val.text = Def(C14_Message(c.engine))

\* an empty candidate on the last key, after a retried empty response on the
\* first: the message names the engine
C14_Witness ==
  \E n \in DOMAIN calls :
    LET c == calls[n] IN
      /\ Answered(c)
      /\ C14_EmptyResponse(c.answer.val.value)
      /\ HasCandidate(c.answer.val.value)
      /\ Len(c.log) = Len(Keys(c))
      /\ c.log[1] = "EmptyResponse"
      /\ c.engine = "Qwalc-3"
      /\ c.result.val.text = Def(C14_Message("Qwalc-3"))

\* the failure message of each class of the taxonomy
C15_MessageOf(class, engine) ==
  IF class = "Safety" THEN {SafetyMsg}
  ELSE IF class = "InvalidRequest" THEN {ClientMsg}
  ELSE IF class = "TransientUnavailable" THEN CloudMessages
  ELSE IF class = "EmptyResponse" THEN {EmptyMsg(engine)}
  ELSE {GenericMsg(engine)}

\* C15: the failure result is derived from the last recorded error alone:
\* when the keys failed with errors of several classes, the message is that
\* of the class of the error of the key tried last, never that of an earlier
\* one.
C15_LastErrorDecides ==
  \A n \in DOMAIN calls :
    LET c == calls[n] IN
      IsFailure(c) =>
        c.result.val.text.val \in C15_MessageOf(c.log[Len(c.log)], c.engine)

C16_Message(engine) ==
  "Error Critico en el motor " \o engine
    \o ".\n\nNo pudimos completar la renderizacion tras multiples intentos."

\* C16: an error with none of the indications of safety, invalid request,
\* transient unavailability or empty response is retried: the next key is
\* tried while one remains, and when such an error is the last one of an
\* exhausted pool the result is the generic critical failure message with the
\* name of the engine.
C16_UnclassifiedRetried ==
  \A n \in DOMAIN calls :
    LET c == calls[n] IN
      (Len(c.log) > 0 /\ c.log[Len(c.log)] = "Unclassified") =>
        /\ ~IsSafetyError(FinalErrString(c.lastError))
        /\ ~IsClientError(FinalErrString(c.lastError))
        /\ ~IsNetworkError(FinalErrString(c.lastError))
        /\ ~IsEmptyError(FinalErrString(c.lastError))
        /\ Len(c.log) < Len(Keys(c)) =>
             /\ c.status = "running"
             /\ Len(c.sent) = Len(c.log) + 1
             /\ c.sent[Len(c.sent)].apiKey = Keys(c)[Len(c.log) + 1]
        /\ Len(c.log) = Len(Keys(c)) =>
             /\ c.status = "resolved"
             /\ c.result.val.isError = Def(TRUE)
             /\ c.result.val.image = Undef
             /\ c.result.val.text = Def(C16_Message(c.engine))

\* every key was refused with status 403: the generic message names the
\* engine
C16_Witness ==
  \E n \in DOMAIN calls :
    LET c == calls[n] IN
      /\ Len(c.log) = Len(Keys(c))
      /\ \A k \in 1..Len(c.log) : c.log[k] = "Unclassified"
      /\ c.answer.val.threw
      /\ c.answer.val.error.message = "got status: 403 Forbidden"
      /\ c.engine = "Snapic-gen3"
      /\ c.result.val.text = Def(C16_Message("Snapic-gen3"))

Retryable == {"TransientUnavailable", "EmptyResponse", "Unclassified"}

\* the requests of an invocation that are sent and not yet answered
Pending(c) == Len(c.sent) - Len(c.log)

C17_InOrder(c) ==
  /\ \A j, k \in 1..Len(Keys(c)) : j # k => Keys(c)[j] # Keys(c)[k]
  /\ Len(c.sent) <= Len(Keys(c))
  /\ \A k \in 1..Len(c.sent) : c.sent[k].apiKey = Keys(c)[k]

C17_OneAtATime(c) ==
  /\ Pending(c) \in {0, 1}
  /\ Pending(c) = 1 <=> c.status = "running"

\* C17: the keys are contacted in pool order from the first, none skipped
\* and none twice; the request to the next key is issued only when the
\* request before it has ended with a retryable failure; an invocation never
\* has two requests pending.
C17_SequentialInOrder ==
  \A n \in DOMAIN calls :
    LET c == calls[n] IN
      /\ C17_InOrder(c)
      /\ C17_OneAtATime(c)
      /\ \A k \in 1..(Len(c.sent) - 1) : c.log[k] \in Retryable

(***************************************************************************)
(* Properties of editImage: the result                                     *)
(***************************************************************************)

C18_Uri(part) ==
  "data:" \o part.inlineData.mimeType \o ";base64," \o part.inlineData.data

\* the image and the text of message m are those of the last part of their
\* kind in parts, a part with inline data counting as an image only
C18_Extracted(parts, m) ==
  /\ IF \E k \in 1..Len(parts) : Has(parts[k], "inlineData")
     THEN \E k \in 1..Len(parts) :
            /\ Has(parts[k], "inlineData")
            /\ \A j \in (k + 1)..Len(parts) : ~Has(parts[j], "inlineData")
            /\ m.image = Def(C18_Uri(parts[k]))
     ELSE m.image = Undef
  /\ m.text.def =>
       \E k \in 1..Len(parts) :
         /\ ~Has(parts[k], "inlineData")
         /\ Has(parts[k], "text")
         /\ m.text.val = parts[k].text
         /\ \A j \in (k + 1)..Len(parts) :
              Has(parts[j], "inlineData") \/ ~Has(parts[j], "text") \/ parts[j].text = ""
  /\ (m.text = Undef /\ m.image = Undef) => FALSE

\* C18: the success result holds at most one image and one text, taken from
\* the content parts of the first candidate alone: of several parts of a
\* kind the last one in part order, and of a part with inline image data the
\* image only.
C18_ExtractionFromFirstCandidate ==
  \A n \in DOMAIN calls :
    LET c == calls[n] IN
      IsSuccess(c) =>
        LET candidates == c.answer.val.value.candidates IN
          /\ C18_Extracted(PartsOf(candidates[1]), c.result.val)
          /\ \A k \in 2..Len(candidates) :
               \A j \in 1..Len(PartsOf(candidates[k])) :
                 Has(PartsOf(candidates[k])[j], "text") =>
                   c.result.val.text # Def(PartsOf(candidates[k])[j].text)

\* a response of two candidates, the first with two images and two texts:
\* the result has the second image and the second text of the first
C18_Witness ==
  \E n \in DOMAIN calls :
    LET c == calls[n] IN
      /\ IsSuccess(c)
      /\ Len(c.answer.val.value.candidates) = 2
      /\ Len(PartsOf(c.answer.val.value.candidates[1])) = 4
      /\ c.result.val.image = Def("data:image/jpeg;base64,9j4AAQSkZJRg")
      /\ c.result.val.text = Def("two")

\* the fixed failure messages, with the name of the engine as only parameter
C19_Templates(engine) ==
  { "Bloqueo de Seguridad: La imagen o el prompt infringen nuestras normas de contenido.",
    "Error de Solicitud: La imagen proporcionada no es valida o el formato no es compatible.",
    CloudMsgApp, CloudMsgService, C14_Message(engine), C16_Message(engine) }

\* the texts of the errors that a request can end with
C19_RawTexts == {e.message : e \in Errors} \cup {ErrToString(e) : e \in Errors}

\* the failure messages that would show the text of an error
C19_Leaking ==
  {t \in UNION {C19_Templates(engine) : engine \in EngineNames} :
     \E raw \in C19_RawTexts : Includes(t, raw)}

\* C19: the result of editImage is flagged as an error exactly when no key
\* tried gave a usable candidate.  An error result has the role model, no
\* image and as text one of the fixed messages, which never holds the text of
\* the error; a success result has the role model, no error flag and an image
\* or a text.
C19_ResultShape ==
  \A n \in DOMAIN calls :
    LET c == calls[n] IN
      c.status = "resolved" =>
        LET m == c.result.val IN
          /\ m.role = "model"
          /\ m.isError = Def(TRUE) <=> \A k \in 1..Len(c.log) : c.log[k] # "Usable"
          /\ m.isError = Def(TRUE) =>
               /\ m.image = Undef
               /\ m.text.def
               /\ m.text.val \in C19_Templates(c.engine)
               /\ m.text.val \notin C19_Leaking
               /\ m.text.val # c.lastError.val.message
          /\ m.isError # Def(TRUE) =>
               /\ m.isError = Undef
               /\ m.image.def \/ m.text.def

\* the pool is exhausted with the server error 503 as last error: the result
\* is one of the fixed messages and has nothing of the error
C19_Witness ==
  \E n \in DOMAIN calls :
    LET c == calls[n] IN
      /\ c.status = "resolved"
      /\ Len(c.log) = Len(Keys(c))
      /\ c.lastError.val.message = "got status: 503 Service Unavailable"
      /\ c.result.val.isError = Def(TRUE)
      /\ c.result.val.text.val \in CloudMessages
      /\ c.result.val.image = Undef

(***************************************************************************)
(* Properties of editImage: what an invocation leaves alone                *)
(***************************************************************************)

\* the arguments of an invocation
Arguments(c) == <<c.impl, c.images, c.prompt, c.engine>>

\* what an invocation has come to, but for the identifier of its result
Position(c) ==
  <<c.status, c.i, c.sent, c.lastError,
    IF c.result.def
    THEN <<c.result.val.role, c.result.val.text, c.result.val.image, c.result.val.isError>>
    ELSE <<>> >>

\* a new invocation starts at the first key of the pool, with no error
C20_Fresh(c) ==
  /\ c.status = "running"
  /\ c.i = 1
  /\ c.lastError = Undef
  /\ c.log = <<>>
  /\ Len(c.sent) = 1
  /\ c.sent[1].apiKey = Keys(c)[1]

C20_Frame ==
  /\ \A n \in DOMAIN calls :
       /\ n \in DOMAIN calls'
       /\ Arguments(calls'[n]) = Arguments(calls[n])
       /\ calls'[n].fullPrompt = calls[n].fullPrompt
       /\ \A m \in DOMAIN calls : (calls'[n] # calls[n] /\ m # n) => calls'[m] = calls[m]
  /\ Len(calls') > Len(calls) =>
       /\ Len(calls') = Len(calls) + 1
       /\ SubSeq(calls', 1, Len(calls)) = calls
       /\ C20_Fresh(calls'[Len(calls')])
  /\ UNCHANGED <<messages, input, isLoading, attachments, selectedEngine,
                 isPremiumUnlocked, codeModal, showLockedModal, rendered, editImageCopy>>

\* C20: an invocation of editImage leaves the pool of keys, the attachment
\* list of its caller and the state of the application as they are; its
\* request and its last error are its own: every invocation starts at the
\* first key with no error, changes no other invocation, and comes to what its
\* arguments and its own outcomes determine, whatever happened before.
C20_InvocationsIndependent ==
  /\ [](\A n \in DOMAIN calls : C17_InOrder(calls[n]))
  /\ [](\A n, m \in DOMAIN calls :
          (/\ Arguments(calls[n]) = Arguments(calls[m])
           /\ calls[n].log = calls[m].log
           /\ calls[n].answer = calls[m].answer) => Position(calls[n]) = Position(calls[m]))
  /\ [][C20_Frame]_vars

\* the first invocation has used up the pool; the second, with the same
\* arguments, has gone from the first key to the second
C20_Witness ==
  /\ Len(calls) = 2
  /\ IsFailure(calls[1])
  /\ Len(calls[1].log) = Len(Keys(calls[1]))
  /\ Arguments(calls[2]) = Arguments(calls[1])
  /\ calls[2].log = <<"TransientUnavailable">>
  /\ calls[2].status = "running"
  /\ calls[2].i = 2
  /\ calls[2].sent[2].apiKey = Keys(calls[2])[2]

(***************************************************************************)
(* Properties of the pending attachments                                   *)
(***************************************************************************)
\* a send was accepted: handleSend went on to call editImage
SendAccepted == Len(calls') = Len(calls) + 1

Ids(atts) == {atts[k].id : k \in 1..Len(atts)}

\* one attachment was taken out of the pending list, the others stay in order
RemovedOne ==
  \E id \in Ids(attachments) :
    /\ attachments' = Without(attachments, id)
    /\ Len(attachments') = Len(attachments) - 1

\* attachments were added behind the pending ones
AddedBehind ==
  /\ Len(attachments') > Len(attachments)
  /\ SubSeq(attachments', 1, Len(attachments)) = attachments

\* C21: an accepted send passes to editImage exactly the attachments pending
\* at the moment of the send, in their order, and empties the pending list;
\* the pending list changes only by a send that empties it, by an addition
\* behind the pending ones or by the removal of exactly one attachment, the
\* others staying unchanged and in order; the data and the MIME type of an
\* existing attachment never change.
C21_AttachmentLifecycle ==
  [][ /\ SendAccepted =>
           /\ calls'[Len(calls')].images = attachments
           /\ attachments' = <<>>
      /\ attachments' # attachments =>
           \/ SendAccepted /\ attachments' = <<>>
           \/ AddedBehind
           \/ RemovedOne
      /\ \A k \in 1..Len(attachments), h \in 1..Len(attachments') :
           attachments'[h].id = attachments[k].id => attachments'[h] = attachments[k]
    ]_vars

(***************************************************************************)
(* Agreement of the halt test of the loop and the final classifier         *)
(***************************************************************************)
Untried(c) == Len(c.sent) < Len(Keys(c))

HaltMessages == {SafetyMsg, ClientMsg}

ExhaustionMessages(c) == CloudMessages \cup {EmptyMsg(c.engine), GenericMsg(c.engine)}

\* the halt test of the loop holds of the error of the last attempt
C22_HaltedOnLast(c) == HardStop(c.impl, FinalErrString(c.lastError))

\* C22 as stated: an invocation ends in failure while untried credentials
\* remain if and only if its final message is the content-policy or the
\* invalid-request message, and the cloud-connection, engine-could-not-process
\* and generic messages come only after every credential was attempted.
C22_EarlyHaltIffHaltMessage ==
  \A n \in DOMAIN calls :
    LET c == calls[n] IN
      IsFailure(c) =>
        /\ Untried(c) <=> c.result.val.text.val \in HaltMessages
        /\ c.result.val.text.val \in ExhaustionMessages(c) => ~Untried(c)

\* C22, amended: the final message of a failure is one of the five messages;
\* it is the content-policy or the invalid-request message exactly when the
\* halt test of the loop held of the error of the last attempt, whether or not
\* that attempt used the last credential; a failure that leaves credentials
\* untried has one of these two messages, and the cloud-connection,
\* engine-could-not-process and generic messages come only after every
\* credential was attempted.
C22_HaltAgreesWithClassifier ==
  \A n \in DOMAIN calls :
    LET c == calls[n] IN
      IsFailure(c) =>
        /\ c.result.val.text.val \in HaltMessages \cup ExhaustionMessages(c)
        /\ c.result.val.text.val \in HaltMessages <=> C22_HaltedOnLast(c)
        /\ Untried(c) => c.result.val.text.val \in HaltMessages
        /\ c.result.val.text.val \in ExhaustionMessages(c) => ~Untried(c)

\* a failure with the content-policy message whose last attempt used the
\* last credential of the pool, after retries
C22_Witness ==
  \E n \in DOMAIN calls :
    LET c == calls[n] IN
      /\ IsFailure(c)
      /\ Len(c.sent) = Len(Keys(c))
      /\ Len(c.sent) > 1
      /\ c.result.val.text.val = SafetyMsg

\* a failure after one retry that leaves credentials untried
C22_WitnessEarly ==
  \E n \in DOMAIN calls :
    LET c == calls[n] IN
      /\ IsFailure(c)
      /\ Len(c.sent) = 2
      /\ Untried(c)
      /\ c.result.val.text.val \in HaltMessages

(***************************************************************************)
(* Properties of the premium engine                                        *)
(***************************************************************************)
ValidCodes == {"samcpic", "102938XMAS2025"}

\* C23: the premium engine is selected only while premium is unlocked;
\* selecting it while locked only opens the locked modal and leaves the
\* selected engine and everything else unchanged; the verification of a code
\* that is not valid changes neither isPremiumUnlocked nor selectedEngine,
\* and premium is unlocked only by the verification of a valid code; once
\* true, isPremiumUnlocked never becomes false again, and clearHistory
\* leaves it as it is.
C23_PremiumGating ==
  /\ [](selectedEngine = "Snapic-gen3" => isPremiumUnlocked)
  /\ [][(HandleEngineSelect("Snapic-gen3") /\ ~isPremiumUnlocked) =>
          /\ showLockedModal'
          /\ UNCHANGED <<messages, input, isLoading, attachments, selectedEngine,
                         isPremiumUnlocked, codeModal, rendered, reading, calls>>]_vars
  /\ [][(HandleVerifyCode /\ Trim(redeemCode) \notin ValidCodes) =>
          UNCHANGED <<isPremiumUnlocked, selectedEngine>>]_vars
  /\ [][(~isPremiumUnlocked /\ isPremiumUnlocked') =>
          (showCodeModal /\ Trim(redeemCode) \in ValidCodes)]_vars
  /\ [][isPremiumUnlocked => isPremiumUnlocked']_vars
  /\ [][(\E confirmed \in BOOLEAN : ClearHistory(confirmed)) =>
          UNCHANGED <<isPremiumUnlocked, selectedEngine>>]_vars

\* the premium engine was refused, then unlocked by a code, and a call of
\* editImage was made with it
C23_Witness ==
  /\ opens = 1
  /\ showLockedModal
  /\ isPremiumUnlocked
  /\ selectedEngine = "Snapic-gen3"
  /\ \E n \in DOMAIN calls : calls[n].engine = "Snapic-gen3"

\* a code that is not valid was refused while the premium engine is locked
C23_WitnessRefused ==
  /\ redeemError = RedeemErrorText
  /\ Trim(redeemCode) \notin ValidCodes
  /\ ~isPremiumUnlocked
  /\ showLockedModal

(***************************************************************************)
(* Properties of the loading flag                                          *)
(***************************************************************************)
\* a call of editImage settles in this step: it resolves or rejects
Settles == \E n \in DOMAIN calls : calls[n].status = "running" /\ calls'[n].status # "running"

\* C24: an accepted send sets isLoading before the call of editImage starts,
\* so that the call runs with isLoading set; isLoading is true only while a
\* call is in flight; when the call settles, with a success result, a failure
\* result or a thrown error, isLoading is reset; and whenever no call is in
\* flight the UI eventually shows isLoading reset, so it does not stay blocked
\* for sending.
C24_LoadingFollowsOrchestration ==
  /\ [][SendAccepted => (~isLoading /\ isLoading' /\ rendered'.isLoading)]_vars
  /\ [](isLoading <=> InFlight # {})
  /\ [][Settles => (isLoading /\ ~isLoading')]_vars
  /\ (InFlight = {}) ~> (~isLoading /\ ~rendered.isLoading)

\* the first call ended with a thrown error, the UI was unblocked and a
\* second send was accepted
C24_Witness ==
  /\ Len(calls) = 2
  /\ calls[1].status = "rejected"
  /\ calls[2].status = "running"
  /\ isLoading
  /\ rendered.isLoading

(***************************************************************************)
(* Properties of the history                                               *)
(***************************************************************************)
\* the history grew at its end by the messages ms
Appended(ms) == messages' = messages \o ms

\* the message that handleSend appends for an accepted send
IsSentMessage(m) == m.id.tag = "user" /\ m.role = "user" /\ m.image.def

\* the message that handleSend appends when its call of editImage settled
IsReply(m) == m.id.tag \in {"result", "catch"} /\ m.role = "model"

\* C25: an accepted send appends its user message to the history in the step
\* that starts the call of editImage, and the step in which the call settles
\* appends exactly one model message; in the history the reply of a send comes
\* directly behind the user message of that send, or comes first when the
\* history was cleared in between; a step that changes the history is a
\* confirmed clearHistory that empties it or appends at the end, so no entry
\* is removed, replaced or reordered by any other handler, whatever send,
\* file, engine, code and clearHistory events come while a response is
\* pending.
C25_HistoryOrdering ==
  /\ [][SendAccepted =>
          \E m \in {messages'[Len(messages')]} :
            /\ Appended(<<m>>)
            /\ IsSentMessage(m)
            /\ m.id = Uuid("user", sends')
            /\ calls'[Len(calls')].status = "running"]_vars
  /\ [][Settles =>
          \E m \in {messages'[Len(messages')]} :
            /\ Appended(<<m>>)
            /\ IsReply(m)
            /\ \E n \in DOMAIN calls :
                 calls[n].status = "running" /\ calls'[n].status # "running" /\ m.id.n = n]_vars
  /\ [][messages' # messages =>
          \/ messages' = <<>> /\ ClearHistory(TRUE)
          \/ /\ Len(messages') > Len(messages)
             /\ SubSeq(messages', 1, Len(messages)) = messages]_vars
  /\ [](\A k \in 1..Len(messages) :
          IsReply(messages[k]) => (k = 1 \/ IsSentMessage(messages[k - 1])))
  /\ [](\A k, h \in 1..Len(messages) : messages[k].id = messages[h].id => k = h)

\* while the response was pending a file was added and the engine was
\* changed; the reply stands directly behind the user message of its send
C25_Witness ==
  /\ Len(calls) = 1
  /\ calls[1].status = "resolved"
  /\ calls[1].engine # selectedEngine
  /\ Len(attachments) > 0
  /\ Len(messages) >= 2
  /\ IsReply(messages[Len(messages)])
  /\ IsSentMessage(messages[Len(messages) - 1])

\* the history was cleared while the response was pending: the reply stands
\* alone
C25_WitnessCleared ==
  /\ Len(calls) = 1
  /\ calls[1].status # "running"
  /\ Len(messages) = 1
  /\ IsReply(messages[1])

====
